---- MODULE Spec2Model ----
(***************************************************************************)
(* Model of pydgq/solver/odesolve.pyx: the result-layout helpers           *)
(* (n_saved_timesteps, result_len, timestep_boundaries, make_tt), the      *)
(* end-of-timestep storage routine store(), and the driver ivp().          *)
(*                                                                         *)
(* Indices are 0-based as in the source; a buffer is a TLA+ sequence, so   *)
(* source index i is element i+1 of the sequence.                          *)
(*                                                                         *)
(* Floating-point values are abstracted:                                   *)
(*  - the state vector w and the rows of ww/ff carry a class:              *)
(*      "w0"  the initial condition (finite, normal),                      *)
(*      "fin" some other finite value with a normal component,             *)
(*      "den" every component denormal,                                    *)
(*      "nan" some component NaN or Inf,                                   *)
(*      "fw"  a kernel output f(w,t), "zero" 0.0, "unset" never written;   *)
(*  - make_tt's times are exact multiples of dt/(interp-1): a time is kept *)
(*    as the integer  dt * ((startn + n)*D + k)  with D = max(1,interp-1). *)
(***************************************************************************)
EXTENDS Integers, Sequences, FiniteSets, TLC

VARIABLES
    \* ---- layout helpers (module-level functions called by a user) ----
    largs,      \* the arguments (dt, nt, save_from, interp) of the layout calls
    rlen,       \* value returned by result_len, -1 before the call
    nsaved,     \* value returned by n_saved_timesteps, -1 before the call
    bounds,     \* <<startj, endj>> returned by timestep_boundaries, <<>> before
    tt,         \* array returned by make_tt, <<>> before the call
    \* ---- one call of ivp() ----
    pc,         \* position of the call
    err,        \* name of the exception raised, "" if none
    integrator, allow_denormals, n_space_dofs, dt, nt, save_from, interp, maxit,
    kernel,     \* behaviour of the kernel f behind pw_f: "zero" or "any"
    ww, ff, fail,   \* caller-provided output buffers
    oob,        \* TRUE once a write went outside a caller buffer
    w,          \* class of the state vector
    n,          \* timestep number (loop variable)
    offs,
    wrk,        \* integrator work space: "NULL", "malloc", "freed"
    ghelper,    \* galerkin.helper_instance as seen by this call
    storage,    \* instance storage of ghelper for my_unique_id
    denormal_triggered, naninf_triggered,
    nits, nfail, totalfailed, totalnits, max_taken_its, min_taken_its,
    nits_seen,  \* history: the counts the stepper returned at timesteps 1..n
    nt_taken,   \* 0 while the Python local nt_taken is unbound
    \* ---- several dG/cG calls of ivp() running at the same time ----
    runs,       \* per call: position, my_unique_id, timestep number
    instances   \* keys of the helper's instance storage that are allocated

layvars == <<largs, rlen, nsaved, bounds, tt>>
argvars == <<integrator, allow_denormals, n_space_dofs, dt, nt, save_from, interp,
             maxit, kernel>>
bufvars == <<ww, ff, fail, oob>>
statvars == <<nits, nfail, totalfailed, totalnits, max_taken_its, min_taken_its,
              nits_seen>>
runvars == <<w, n, offs, wrk, ghelper, storage, denormal_triggered,
             naninf_triggered, nt_taken>>
ivpvars == <<pc, err, argvars, bufvars, statvars, runvars>>
concvars == <<runs, instances>>
vars == <<layvars, ivpvars, concvars>>

----------------------------------------------------------------------------
\* Bounds of the model.
MaxNt == 2            \* nt ranges over 0..MaxNt (0 is the rejected value)
MaxInterp == 2        \* interp ranges over 1..MaxInterp
MaxIt == 2            \* maxit ranges over 0..MaxIt (0 is the rejected value)
MaxLayoutNt == 4      \* nt of the layout helpers ranges over 1..MaxLayoutNt
MaxLayoutInterp == 3  \* interp of the layout helpers ranges over 1..MaxLayoutInterp
NumRuns == 2          \* calls of ivp that may run at the same time
NumAddresses == 2     \* addresses at which a Python object can be allocated
MaxRunNt == 2         \* nt of each of the calls running at the same time

----------------------------------------------------------------------------
\* cminmax.cuimax: maximum of two unsigned ints.
cuimax(a, b) == IF a > b THEN a ELSE b

\* ---------------------------------------------------------------- layout
n_saved_timesteps_noIC(nt_, save_from_) == nt_ - (cuimax(1, save_from_) - 1)

n_saved_timesteps(nt_, save_from_) ==
    LET k == nt_ - (cuimax(1, save_from_) - 1)
    IN  IF save_from_ = 0 THEN k + 1 ELSE k

result_len_noIC(nt_, save_from_, interp_) == (nt_ - (save_from_ - 1)) * interp_

result_len(nt_, save_from_, interp_) ==
    IF save_from_ = 0
    THEN 1 + nt_ * interp_
    ELSE (nt_ - (save_from_ - 1)) * interp_

timestep_boundaries_noOffs(nt_, save_from_, interp_) ==
    LET nsv == nt_ - (cuimax(1, save_from_) - 1)
        n_output == IF save_from_ = 0 THEN nsv + 1 ELSE nsv
        o == IF save_from_ = 0 THEN 1 ELSE 0
        s == [i \in 1..n_output |->
                 IF save_from_ = 0 /\ i = 1 THEN 0 ELSE (i - 1 - o) * interp_]
        e == [i \in 1..n_output |->
                 IF save_from_ = 0 /\ i = 1 THEN 1 ELSE s[i] + interp_]
    IN  <<s, e>>

\* Returns <<startj, endj>>; element i of each is source index i-1.
timestep_boundaries(nt_, save_from_, interp_) ==
    LET nsv == nt_ - (cuimax(1, save_from_) - 1)
        n_output == IF save_from_ = 0 THEN nsv + 1 ELSE nsv
        o == IF save_from_ = 0 THEN 1 ELSE 0
        \* source index offs+n is element i = offs+n+1, so n = i-1-offs
        s == [i \in 1..n_output |->
                 IF save_from_ = 0 /\ i = 1 THEN 0 ELSE o + (i - 1 - o) * interp_]
        e == [i \in 1..n_output |->
                 IF save_from_ = 0 /\ i = 1 THEN 1 ELSE s[i] + interp_]
    IN  <<s, e>>

\* np.linspace(0.0, 1.0, interp)[k], with tloc[0] = 1.0 when interp = 1,
\* as a numerator over tlocDen(interp).
tlocDen(interp_) == IF interp_ = 1 THEN 1 ELSE interp_ - 1
tloc(interp_, k) == IF interp_ = 1 THEN 1 ELSE k

\* One slot of tt: the time written last and the number of writes it received.
TTUnset == [t |-> 0, cnt |-> 0]

\* The writes of make_tt in program order, each [j |-> index, t |-> time].
make_tt_writes_noOffs(dt_, nt_, save_from_, interp_) ==
    LET nsteps == nt_ - (cuimax(1, save_from_) - 1)
        startn == cuimax(1, save_from_) - 1
        D == tlocDen(interp_)
        ic == IF save_from_ = 0 THEN <<[j |-> 0, t |-> 0]>> ELSE <<>>
        body == [m \in 1..(nsteps * interp_) |->
                   LET nn == (m - 1) \div interp_
                       k == (m - 1) % interp_
                       start == nn * interp_
                   IN  [j |-> start + k,
                        t |-> dt_ * ((startn + nn) * D + tloc(interp_, k))]]
    IN  ic \o body

make_tt_writes(dt_, nt_, save_from_, interp_) ==
    LET nsteps == nt_ - (cuimax(1, save_from_) - 1)
        startn == cuimax(1, save_from_) - 1        \* startt = startn*dt
        D == tlocDen(interp_)
        o == IF save_from_ = 0 THEN 1 ELSE 0
        ic == IF save_from_ = 0 THEN <<[j |-> 0, t |-> 0]>> ELSE <<>>
        body == [m \in 1..(nsteps * interp_) |->
                   LET nn == (m - 1) \div interp_     \* outer loop variable n
                       k == (m - 1) % interp_         \* inner loop variable k
                       start == o + nn * interp_
                   IN  [j |-> start + k,
                        t |-> dt_ * ((startn + nn) * D + tloc(interp_, k))]]
    IN  ic \o body

RECURSIVE ApplyTT(_, _)
ApplyTT(arr, writes) ==
    IF writes = <<>> THEN arr
    ELSE LET wr == Head(writes)
             a2 == IF wr.j + 1 \in DOMAIN arr
                   THEN [arr EXCEPT ![wr.j + 1] = [t |-> wr.t, cnt |-> @.cnt + 1]]
                   ELSE arr
         IN  ApplyTT(a2, Tail(writes))

\* make_tt with out=None: a fresh array of result_len slots, then the writes.
make_tt(dt_, nt_, save_from_, interp_) ==
    ApplyTT([i \in 1..result_len(nt_, save_from_, interp_) |-> TTUnset],
            make_tt_writes(dt_, nt_, save_from_, interp_))

LayoutDt == {-2, -1, 1, 2}
LayoutArgs ==
    {a \in [dt : LayoutDt, nt : 1..MaxLayoutNt, save_from : 0..MaxLayoutNt,
            interp : 1..MaxLayoutInterp] : a.save_from <= a.nt}

NoLayoutArgs == [dt |-> 1, nt |-> 1, save_from |-> 1, interp |-> 1]

CallResultLen ==
    /\ rlen = -1
    /\ rlen' = result_len(largs.nt, largs.save_from, largs.interp)
    /\ UNCHANGED <<largs, nsaved, bounds, tt, ivpvars, concvars>>

CallNSavedTimesteps ==
    /\ nsaved = -1
    /\ nsaved' = n_saved_timesteps(largs.nt, largs.save_from)
    /\ UNCHANGED <<largs, rlen, bounds, tt, ivpvars, concvars>>

CallTimestepBoundaries ==
    /\ bounds = <<>>
    /\ bounds' = timestep_boundaries(largs.nt, largs.save_from, largs.interp)
    /\ UNCHANGED <<largs, rlen, nsaved, tt, ivpvars, concvars>>

CallMakeTT ==
    /\ tt = <<>>
    /\ tt' = make_tt(largs.dt, largs.nt, largs.save_from, largs.interp)
    /\ UNCHANGED <<largs, rlen, nsaved, bounds, ivpvars, concvars>>


\* ---------------------------------------------------------------- buffers
\* One time slot (row) of a caller buffer: the value class written last, who
\* wrote it ("ic", "store", "gstore", "fill"; "none" if nobody), for which
\* timestep (0 if not a timestep), and how many writes the slot received.
\* A slot of ww or ff holds a value class, a slot of fail holds 0 or 1 (-1 while
\* it still holds what the caller left there).
Unwritten == [v |-> "unset", by |-> "none", ts |-> 0, cnt |-> 0]
FailUnwritten == [v |-> -1, by |-> "none", ts |-> 0, cnt |-> 0]

NewRows(len, unwritten) == [i \in 1..len |-> unwritten]

InBounds(rows, j) == j >= 0 /\ j < Len(rows)

\* rows[j] = v for a 0-based j; outside the buffer nothing of the buffer changes
\* (the write lands in foreign memory, boundscheck = False).
WriteRow(rows, j, v, by, ts) ==
    IF InBounds(rows, j)
    THEN [rows EXCEPT ![j + 1] = [v |-> v, by |-> by, ts |-> ts, cnt |-> @.cnt + 1]]
    ELSE rows

\* rows[j:] = v, a slice assignment: the slice is clipped to the buffer.
FillRows(rows, j, v, ts) ==
    [i \in 1..Len(rows) |->
        IF i - 1 >= j
        THEN [v |-> v, by |-> "fill", ts |-> ts, cnt |-> rows[i].cnt + 1]
        ELSE rows[i]]

NoBuffer == [given |-> FALSE, rows |-> <<>>, cols |-> 0]

\* ---------------------------------------------------------------- collaborators
known_integrators == {"IMR", "BE", "RK4", "RK3", "RK2", "FE", "dG", "cG", "SE"}
galerkin_integrators == {"dG", "cG"}
explicit_integrators == {"SE", "RK4", "RK3", "FE"}
implicit_integrators == {"BE", "IMR"}

\* fputils.all_denormal / fputils.any_naninf on the class of w.
all_denormal(w_) == w_ = "den"
any_naninf(w_) == w_ = "nan"

\* What one call of a stepper (explicit.*, implicit.*, galerkin.dG/cG) can leave
\* in w: a zero right-hand side leaves w as it is, any other kernel can produce
\* any class.
StepOutcomes(kernel_, w_) == IF kernel_ = "zero" THEN {w_} ELSE {"fin", "den", "nan"}

\* Iteration counts an implicit or Galerkin stepper can return: capped at maxit;
\* 0 or 1 for a zero right-hand side.
NitsOutcomes(kernel_, maxit_) == IF kernel_ = "zero" THEN 0..1 ELSE 0..maxit_

\* Class of f(w, t) as written to ff.
KernelValue(kernel_) == IF kernel_ = "zero" THEN "zero" ELSE "fw"

\* ---------------------------------------------------------------- store()
store_late(W, FF, FAIL, w_, timestep, save_from_, fval, failure) ==
    IF timestep >= save_from_
    THEN LET slot == timestep - save_from_ + 1
         IN  [ww |-> [W EXCEPT !.rows = WriteRow(@, slot, w_, "store", timestep)],
              ff |-> IF FF.given
                     THEN [FF EXCEPT !.rows = WriteRow(@, slot, fval, "store", timestep)]
                     ELSE FF,
              fail |-> IF FAIL.given
                       THEN [FAIL EXCEPT !.rows = WriteRow(@, slot, failure, "store", timestep)]
                       ELSE FAIL,
              oob |-> \/ ~InBounds(W.rows, slot)
                      \/ FF.given /\ ~InBounds(FF.rows, slot)
                      \/ FAIL.given /\ ~InBounds(FAIL.rows, slot)]
    ELSE [ww |-> W, ff |-> FF, fail |-> FAIL, oob |-> FALSE]

\* The buffers after store(w, ..., timestep, t, save_from, ww, f, ff, data, pfail,
\* failure, wrk), and whether one of its writes fell outside a buffer.
store(W, FF, FAIL, w_, timestep, save_from_, fval, failure) ==
    IF timestep >= save_from_
    THEN LET slot == timestep - save_from_     \* n = timestep - save_from
         IN  [ww |-> [W EXCEPT !.rows = WriteRow(@, slot, w_, "store", timestep)],
              ff |-> IF FF.given
                     THEN [FF EXCEPT !.rows = WriteRow(@, slot, fval, "store", timestep)]
                     ELSE FF,
              fail |-> IF FAIL.given
                       THEN [FAIL EXCEPT !.rows = WriteRow(@, slot, failure, "store", timestep)]
                       ELSE FAIL,
              oob |-> \/ ~InBounds(W.rows, slot)
                      \/ FF.given /\ ~InBounds(FF.rows, slot)
                      \/ FAIL.given /\ ~InBounds(FAIL.rows, slot)]
    ELSE [ww |-> W, ff |-> FF, fail |-> FAIL, oob |-> FALSE]

RECURSIVE WriteRun(_, _, _, _, _, _)
\* rows[j], ..., rows[j+count-1] = v, one write each.
WriteRun(rows, j, count, v, by, ts) ==
    IF count = 0 THEN rows
    ELSE WriteRun(WriteRow(rows, j, v, by, ts), j + 1, count - 1, v, by, ts)

\* The inline storage of the Galerkin loop with the row of the initial
\* condition left out of out_start.
galerkin_store_noOffs(W, FF, FAIL, w_, n_, save_from_, interp_, offs_, fval, failure) ==
    IF n_ >= save_from_
    THEN LET noutput == n_ - cuimax(1, save_from_)
             out_start == noutput * interp_
         IN  [ww |-> [W EXCEPT !.rows = WriteRun(@, out_start, interp_, w_, "gstore", n_)],
              ff |-> IF FF.given
                     THEN [FF EXCEPT !.rows = WriteRun(@, out_start, interp_, fval, "gstore", n_)]
                     ELSE FF,
              fail |-> IF FAIL.given
                       THEN [FAIL EXCEPT !.rows =
                                WriteRow(@, offs_ + noutput, failure, "gstore", n_)]
                       ELSE FAIL,
              oob |-> \/ ~InBounds(W.rows, out_start + interp_ - 1)
                      \/ FF.given /\ ~InBounds(FF.rows, out_start + interp_ - 1)
                      \/ FAIL.given /\ ~InBounds(FAIL.rows, offs_ + noutput)]
    ELSE [ww |-> W, ff |-> FF, fail |-> FAIL, oob |-> FALSE]

\* The inline storage of the Galerkin loop for interp > 1.
galerkin_store(W, FF, FAIL, w_, n_, save_from_, interp_, offs_, fval, failure) ==
    IF n_ >= save_from_
    THEN LET noutput == n_ - cuimax(1, save_from_)
             out_start == offs_ + noutput * interp_
         IN  [ww |-> [W EXCEPT !.rows = WriteRun(@, out_start, interp_, w_, "gstore", n_)],
              ff |-> IF FF.given
                     THEN [FF EXCEPT !.rows = WriteRun(@, out_start, interp_, fval, "gstore", n_)]
                     ELSE FF,
              fail |-> IF FAIL.given
                       THEN [FAIL EXCEPT !.rows =
                                WriteRow(@, offs_ + noutput, failure, "gstore", n_)]
                       ELSE FAIL,
              oob |-> \/ ~InBounds(W.rows, out_start + interp_ - 1)
                      \/ FF.given /\ ~InBounds(FF.rows, out_start + interp_ - 1)
                      \/ FAIL.given /\ ~InBounds(FAIL.rows, offs_ + noutput)]
    ELSE [ww |-> W, ff |-> FF, fail |-> FAIL, oob |-> FALSE]

\* A flag set by any iteration at all.
failure_flag_any(nits_, maxit_) == IF nits_ >= 1 THEN 1 ELSE 0

\* A flag that is never set.
failure_flag_never(nits_, maxit_) == 0

\* <int>(nits == maxit)
failure_flag(nits_, maxit_) == IF nits_ = maxit_ THEN 1 ELSE 0


\* ---------------------------------------------------------------- ivp()
IntegratorNames == known_integrators \cup {"XX"}
ShapeDeltas == {-1, 0}      \* time-axis length of a buffer minus result_len
ColDeltas == {0, 1}         \* second dimension of a buffer minus len(w0)

Max0(x) == IF x < 0 THEN 0 ELSE x

\* The parameter validation of ivp in source order: the message of the first
\* check that fails, "" if all pass.
ValidationError(ig, ip, d, t_, sf, mi, nd, W, FF) ==
    IF ig \notin known_integrators THEN "ValueError: unknown integrator"
    ELSE IF ig \notin galerkin_integrators /\ ip # 1 THEN "ValueError: interp must be 1"
    ELSE IF d = 0 THEN "ValueError: dt cannot be zero"
    ELSE IF t_ < 1 THEN "ValueError: nt must be >= 1"
    ELSE IF sf < 0 THEN "ValueError: save_from must be >= 0"
    ELSE IF sf > t_ THEN "ValueError: save_from must be <= nt"
    ELSE IF mi < 1 THEN "ValueError: maxit must be >= 1"
    ELSE IF Len(W.rows) # result_len(t_, sf, ip) THEN "ValueError: shape(ww)[0]"
    ELSE IF W.cols # nd THEN "ValueError: shape(ww)[1]"
    ELSE IF FF.given /\ Len(FF.rows) # result_len(t_, sf, ip) THEN "ValueError: shape(ff)[0]"
    ELSE IF FF.given /\ FF.cols # nd THEN "ValueError: shape(ff)[1]"
    ELSE ""

SEError == "ValueError: SE odd n_space_dofs"
GalerkinErrors == {"RuntimeError: galerkin.init() must be called first",
                   "RuntimeError: auxiliary class did not initialize",
                   "RuntimeError: initialized for another method",
                   "NotImplementedError: interp differs from nx"}

NoHelper == [status |-> "unread", method |-> "", nx |-> 0,
             vis_x |-> [num |-> -1, den |-> 1], integ_x |-> [num |-> 0, den |-> 1]]

InitIvp ==
    /\ pc = "start" /\ err = ""
    /\ integrator = "" /\ allow_denormals = FALSE /\ n_space_dofs = 0 /\ dt = 0
    /\ nt = 0 /\ save_from = 0 /\ interp = 0 /\ maxit = 0 /\ kernel = ""
    /\ ww = NoBuffer /\ ff = NoBuffer /\ fail = NoBuffer /\ oob = FALSE
    /\ w = "unset" /\ n = 0 /\ offs = 0 /\ wrk = "NULL"
    /\ ghelper = NoHelper /\ storage = "none"
    /\ denormal_triggered = FALSE /\ naninf_triggered = FALSE
    /\ nits = 0 /\ nfail = 0 /\ totalfailed = 0 /\ totalnits = 0
    /\ max_taken_its = 0 /\ min_taken_its = 0 /\ nt_taken = 0
    /\ nits_seen = <<>>

InitLayoutIdle ==
    /\ largs = NoLayoutArgs /\ rlen = -1 /\ nsaved = -1 /\ bounds = <<>> /\ tt = <<>>

\* The call ivp(integrator, ..., ww, ff, ..., maxit) up to the end of the
\* parameter validation.  The arguments read by the validation are drawn here.
Validate ==
    /\ pc = "start"
    /\ \E ig \in IntegratorNames, ip \in 1..MaxInterp, d \in {0, 1}, t_ \in 0..MaxNt,
          sf \in -1..(MaxNt + 1), mi \in 0..MaxIt, nd \in 1..2,
          wr \in ShapeDeltas, wc \in ColDeltas,
          fg \in BOOLEAN, fr \in ShapeDeltas, fc \in ColDeltas :
          LET len == result_len(t_, sf, ip)
              W == [given |-> TRUE, rows |-> NewRows(Max0(len + wr), Unwritten),
                    cols |-> nd + wc]
              FF == IF fg
                    THEN [given |-> TRUE, rows |-> NewRows(Max0(len + fr), Unwritten),
                          cols |-> nd + fc]
                    ELSE NoBuffer
              e == ValidationError(ig, ip, d, t_, sf, mi, nd, W, FF)
          IN  /\ fg \/ (fr = 0 /\ fc = 0)
              /\ integrator' = ig /\ interp' = ip /\ dt' = d /\ nt' = t_
              /\ save_from' = sf /\ maxit' = mi /\ n_space_dofs' = nd
              /\ ww' = W /\ ff' = FF
              /\ err' = e
              /\ pc' = IF e = "" THEN "prepare" ELSE "raised"
    /\ UNCHANGED <<allow_denormals, kernel, fail, oob, statvars, runvars, layvars, concvars>>

\* From the health-check flags to offs: the remaining arguments are read, w is
\* set to w0 and, if save_from = 0, the initial condition is written.
Prepare ==
    /\ pc = "prepare"
    /\ \E ad \in BOOLEAN, k \in {"zero", "any"}, lg \in BOOLEAN, lr \in ShapeDeltas :
          LET len == result_len(nt, save_from, interp)
              FAIL == IF lg
                      THEN [given |-> TRUE, rows |-> NewRows(Max0(len + lr), FailUnwritten),
                            cols |-> 1]
                      ELSE NoBuffer
              icoob == save_from = 0 /\ FAIL.given /\ ~InBounds(FAIL.rows, 0)
          IN  /\ lg \/ lr = 0
              /\ allow_denormals' = ad /\ kernel' = k
              /\ IF save_from = 0
                 THEN /\ ww' = [ww EXCEPT !.rows = WriteRow(@, 0, "w0", "ic", 0)]
                      /\ ff' = IF ff.given
                               THEN [ff EXCEPT !.rows =
                                        WriteRow(@, 0, KernelValue(k), "ic", 0)]
                               ELSE ff
                      /\ fail' = IF FAIL.given
                                 THEN [FAIL EXCEPT !.rows = WriteRow(@, 0, 0, "ic", 0)]
                                 ELSE FAIL
                 ELSE ww' = ww /\ ff' = ff /\ fail' = FAIL
              /\ oob' = icoob
              /\ pc' \in (IF icoob THEN {"dispatch", "crashed"} ELSE {"dispatch"})
    /\ w' = "w0"
    /\ n' = 0
    /\ min_taken_its' = 2 * maxit
    /\ offs' = IF save_from = 0 THEN 1 ELSE 0
    /\ UNCHANGED <<err, integrator, n_space_dofs, dt, nt, save_from, interp, maxit,
                   wrk, ghelper, storage, denormal_triggered, naninf_triggered,
                   nits, nfail, totalfailed, totalnits, max_taken_its, nits_seen,
                   nt_taken,
                   layvars, concvars>>

\* The explicit setup with the workspace allocated before the check of SE.
ExplicitSetup_mallocFirst ==
    /\ pc = "dispatch"
    /\ integrator \in explicit_integrators
    /\ wrk' = "malloc"
    /\ IF integrator = "SE" /\ n_space_dofs % 2 # 0
       THEN pc' = "raised" /\ err' = SEError
       ELSE pc' = "loop" /\ err' = err
    /\ UNCHANGED <<argvars, bufvars, statvars, w, n, offs, ghelper, storage,
                   denormal_triggered, naninf_triggered, nt_taken, layvars, concvars>>

\* integrator in ["SE", "RK4", "RK3", "FE"]: the stepper is chosen and wrk allocated.
ExplicitSetup ==
    /\ pc = "dispatch"
    /\ integrator \in explicit_integrators
    /\ IF integrator = "SE" /\ n_space_dofs % 2 # 0
       THEN pc' = "raised" /\ err' = SEError /\ wrk' = wrk
       ELSE pc' = "loop" /\ err' = err /\ wrk' = "malloc"
    /\ UNCHANGED <<argvars, bufvars, statvars, w, n, offs, ghelper, storage,
                   denormal_triggered, naninf_triggered, nt_taken, layvars, concvars>>

RK2Setup ==
    /\ pc = "dispatch"
    /\ integrator = "RK2"
    /\ wrk' = "malloc"
    /\ pc' = "loop"
    /\ UNCHANGED <<err, argvars, bufvars, statvars, w, n, offs, ghelper, storage,
                   denormal_triggered, naninf_triggered, nt_taken, layvars, concvars>>

ImplicitSetup ==
    /\ pc = "dispatch"
    /\ integrator \in implicit_integrators
    /\ wrk' = "malloc"
    /\ pc' = "loop"
    /\ UNCHANGED <<err, argvars, bufvars, statvars, w, n, offs, ghelper, storage,
                   denormal_triggered, naninf_triggered, nt_taken, layvars, concvars>>

\* The states galerkin.helper_instance can be in when ivp reads it.
HelperStates ==
    {[NoHelper EXCEPT !.status = "None"], [NoHelper EXCEPT !.status = "unavailable"]}
    \cup {[NoHelper EXCEPT !.status = "ok", !.method = m, !.nx = x] :
             m \in galerkin_integrators, x \in 1..MaxInterp}

\* x := (x + 1) * 0.5 on the rational num/den.
MapToUnit(x) == [num |-> x.num + x.den, den |-> 2 * x.den]

\* Common setup for Galerkin methods: the helper checks, allocate_storage, and
\* the in-place mapping of the helper's vis_x and integ_x to [0,1].
GalerkinSetup ==
    /\ pc = "dispatch"
    /\ integrator \in galerkin_integrators
    /\ \E h \in HelperStates :
          LET e == IF h.status = "None"
                   THEN "RuntimeError: galerkin.init() must be called first"
                   ELSE IF h.status = "unavailable"
                   THEN "RuntimeError: auxiliary class did not initialize"
                   ELSE IF h.method # integrator
                   THEN "RuntimeError: initialized for another method"
                   ELSE IF h.nx # interp
                   THEN "NotImplementedError: interp differs from nx"
                   ELSE ""
          IN  IF e # ""
              THEN /\ ghelper' = h /\ err' = e /\ pc' = "raised"
                   /\ storage' = storage
              ELSE /\ ghelper' = [h EXCEPT !.vis_x = MapToUnit(@),
                                           !.integ_x = MapToUnit(@)]
                   /\ storage' = "allocated"
                   /\ err' = err /\ pc' = "loop"
    /\ UNCHANGED <<argvars, bufvars, statvars, w, n, offs, wrk,
                   denormal_triggered, naninf_triggered, nt_taken, layvars, concvars>>


\* The end-of-timestep code without the two break statements.
EndOfTimestep_noBreak(wn, res) ==
    /\ w' = wn
    /\ ww' = res.ww /\ ff' = res.ff /\ fail' = res.fail
    /\ oob' = (oob \/ res.oob)
    /\ denormal_triggered' = IF ~allow_denormals THEN all_denormal(wn) ELSE denormal_triggered
    /\ naninf_triggered' = any_naninf(wn)
    /\ LET nxt == IF n + 1 = nt THEN "afterloop" ELSE "loop"
       IN  pc' \in (IF res.oob THEN {nxt, "crashed"} ELSE {nxt})

\* ---------------------------------------------------------------- main loops
\* End-of-timestep boilerplate shared by the four loops: the buffers as left by
\* the storage code, the health checks on the new w, and the break.
EndOfTimestep(wn, res) ==
    /\ w' = wn
    /\ ww' = res.ww /\ ff' = res.ff /\ fail' = res.fail
    /\ oob' = (oob \/ res.oob)
    /\ denormal_triggered' = IF ~allow_denormals     \* do_denormal_check
                             THEN all_denormal(wn)
                             ELSE denormal_triggered
    /\ naninf_triggered' = any_naninf(wn)
    /\ LET nxt == IF denormal_triggered' \/ naninf_triggered' \/ n + 1 = nt
                  THEN "afterloop" ELSE "loop"
       IN  pc' \in (IF res.oob THEN {nxt, "crashed"} ELSE {nxt})

\* The statistics update with the failure count taken only at the first
\* non-converged timestep.
UpdateStatistics_firstOnly(k) ==
    /\ nits' = k
    /\ totalfailed' = IF k = maxit /\ nfail = 0 THEN totalfailed + 1 ELSE totalfailed
    /\ nfail' = IF k = maxit THEN n + 1 ELSE nfail
    /\ max_taken_its' = IF k > max_taken_its THEN k ELSE max_taken_its
    /\ min_taken_its' = IF k < min_taken_its THEN k ELSE min_taken_its
    /\ totalnits' = totalnits + k

\* The statistics update that keeps the first non-converged timestep in nfail
\* (the variant left commented out at line 709).
UpdateStatistics_firstFailed(k) ==
    /\ nits' = k
    /\ totalfailed' = IF k = maxit THEN totalfailed + 1 ELSE totalfailed
    /\ nfail' = IF nfail = 0 /\ k = maxit THEN n + 1 ELSE nfail
    /\ max_taken_its' = IF k > max_taken_its THEN k ELSE max_taken_its
    /\ min_taken_its' = IF k < min_taken_its THEN k ELSE min_taken_its
    /\ totalnits' = totalnits + k

\* Update of the iteration statistics for timestep n+1 that took k iterations.
UpdateStatistics(k) ==
    /\ nits' = k
    /\ totalfailed' = IF k = maxit THEN totalfailed + 1 ELSE totalfailed
    /\ nfail' = IF k = maxit THEN n + 1 ELSE nfail
    /\ max_taken_its' = IF k > max_taken_its THEN k ELSE max_taken_its
    /\ min_taken_its' = IF k < min_taken_its THEN k ELSE min_taken_its
    /\ totalnits' = totalnits + k

\* One iteration of the loop of SE, RK4, RK3, FE.
ExplicitStep ==
    /\ pc = "loop"
    /\ integrator \in explicit_integrators
    /\ n < nt
    /\ n' = n + 1
    /\ \E wn \in StepOutcomes(kernel, w) :
          EndOfTimestep(wn, store(ww, ff, fail, wn, n + 1, save_from,
                                  KernelValue(kernel), 0))
    /\ UNCHANGED <<err, argvars, statvars, offs, wrk, ghelper, storage, nt_taken,
                   layvars, concvars>>

\* One iteration of the loop of RK2.
RK2Step ==
    /\ pc = "loop"
    /\ integrator = "RK2"
    /\ n < nt
    /\ n' = n + 1
    /\ \E wn \in StepOutcomes(kernel, w) :
          EndOfTimestep(wn, store(ww, ff, fail, wn, n + 1, save_from,
                                  KernelValue(kernel), 0))
    /\ UNCHANGED <<err, argvars, statvars, offs, wrk, ghelper, storage, nt_taken,
                   layvars, concvars>>

\* One iteration of the loop of BE, IMR.
ImplicitStep ==
    /\ pc = "loop"
    /\ integrator \in implicit_integrators
    /\ n < nt
    /\ n' = n + 1
    /\ \E wn \in StepOutcomes(kernel, w), k \in NitsOutcomes(kernel, maxit) :
          /\ nits_seen' = Append(nits_seen, k)
          /\ UpdateStatistics(k)
          /\ EndOfTimestep(wn, store(ww, ff, fail, wn, n + 1, save_from,
                                     KernelValue(kernel), failure_flag(k, maxit)))
    /\ UNCHANGED <<err, argvars, offs, wrk, ghelper, storage, nt_taken, layvars, concvars>>

\* One iteration of the loop of dG, cG.
GalerkinStep ==
    /\ pc = "loop"
    /\ integrator \in galerkin_integrators
    /\ n < nt
    /\ n' = n + 1
    /\ \E wn \in StepOutcomes(kernel, w), k \in NitsOutcomes(kernel, maxit) :
          /\ nits_seen' = Append(nits_seen, k)
          /\ UpdateStatistics(k)
          /\ EndOfTimestep(wn,
                IF interp = 1
                THEN store(ww, ff, fail, wn, n + 1, save_from,
                           KernelValue(kernel), failure_flag(k, maxit))
                ELSE galerkin_store(ww, ff, fail, wn, n + 1, save_from, interp, offs,
                                    KernelValue(kernel), failure_flag(k, maxit)))
    /\ UNCHANGED <<err, argvars, offs, wrk, ghelper, storage, nt_taken, layvars, concvars>>

\* The fill-in taking the first saved timestep for every n.
fill_noutput_first(n_, save_from_) == 0

\* ---------------------------------------------------------------- after the loop
\* noutput and out_start of the fill-in.
fill_noutput(n_, save_from_) ==
    IF n_ < save_from_ THEN 0 ELSE n_ - cuimax(1, save_from_)

fill_start(n_, save_from_, interp_, offs_) ==
    offs_ + fill_noutput(n_, save_from_) * interp_

\* "If a failure check triggered, mark the rest of the solution accordingly."
\* The denormal branch assigns into ff and fail without testing them for None;
\* on a None memoryview that is undefined (nonecheck is off): the build either
\* does nothing there or the call dies there.
FillIn ==
    LET out_start == fill_start(n, save_from, interp, offs)
        fstart == offs + fill_noutput(n, save_from)
        W1 == IF denormal_triggered
              THEN [ww EXCEPT !.rows = FillRows(@, out_start, "zero", n)] ELSE ww
        F1 == IF denormal_triggered /\ ff.given
              THEN [ff EXCEPT !.rows = FillRows(@, out_start, "zero", n)] ELSE ff
        L1 == IF denormal_triggered /\ fail.given
              THEN [fail EXCEPT !.rows = FillRows(@, fstart, 0, n)] ELSE fail
        W2 == IF naninf_triggered
              THEN [W1 EXCEPT !.rows = FillRows(@, out_start, "nan", n)] ELSE W1
        F2 == IF naninf_triggered /\ ff.given
              THEN [F1 EXCEPT !.rows = FillRows(@, out_start, "nan", n)] ELSE F1
        L2 == IF naninf_triggered /\ fail.given
              THEN [L1 EXCEPT !.rows = FillRows(@, fstart, 1, n)] ELSE L1
    IN  \/ ww' = W2 /\ ff' = F2 /\ fail' = L2 /\ pc' = "done"
        \/ /\ denormal_triggered /\ ~ff.given
           /\ ww' = W1 /\ ff' = ff /\ fail' = fail /\ pc' = "crashed"
        \/ /\ denormal_triggered /\ ~fail.given
           /\ ww' = W1 /\ ff' = F1 /\ fail' = fail /\ pc' = "crashed"

\* "final value of w'" and what follows it: t = nt_taken*dt reads the Python
\* local nt_taken, which only the implicit and the Galerkin branch assign;
\* reading it unbound (ntt = 0) raises, otherwise the fill-in runs.
ReportAndFillIn(ntt) ==
    IF ntt = 0
    THEN /\ pc' = "raised" /\ err' = "UnboundLocalError: nt_taken"
         /\ ww' = ww /\ ff' = ff /\ fail' = fail
    ELSE /\ err' = err
         /\ FillIn

\* free(wrk) after the loop of an explicit integrator (RK2 included), then the
\* rest of ivp.
ExplicitFinish ==
    /\ pc = "afterloop"
    /\ integrator \in explicit_integrators \cup {"RK2"}
    /\ wrk' = "freed"
    /\ ReportAndFillIn(nt_taken)
    /\ UNCHANGED <<argvars, oob, statvars, w, n, offs, ghelper, storage,
                   denormal_triggered, naninf_triggered, nt_taken, layvars, concvars>>

\* free(wrk), nt_taken and the statistics report after the loop of BE, IMR,
\* then the rest of ivp.
ImplicitFinish ==
    /\ pc = "afterloop"
    /\ integrator \in implicit_integrators
    /\ wrk' = "freed"
    /\ nt_taken' = cuimax(1, n)
    /\ ReportAndFillIn(cuimax(1, n))
    /\ UNCHANGED <<argvars, oob, statvars, w, n, offs, ghelper, storage,
                   denormal_triggered, naninf_triggered, layvars, concvars>>

\* nt_taken, the statistics report and free_storage after the loop of dG, cG,
\* then the rest of ivp.
GalerkinFinish ==
    /\ pc = "afterloop"
    /\ integrator \in galerkin_integrators
    /\ nt_taken' = cuimax(1, n)
    /\ storage' = "freed"
    /\ ReportAndFillIn(cuimax(1, n))
    /\ UNCHANGED <<argvars, oob, statvars, w, n, offs, wrk, ghelper,
                   denormal_triggered, naninf_triggered, layvars, concvars>>

----------------------------------------------------------------------------
\* ------------------------------------- dG/cG calls running at the same time
\* ivp releases the GIL around its loop ("with nogil"), so calls made from
\* several threads overlap there; the setup before the loop and the code
\* after it run under the GIL, one call at a time.
Runs == 1..NumRuns
Addresses == 1..NumAddresses
NoRun == [pc |-> "idle", key |-> 0, n |-> 0]

InitConcIdle ==
    /\ runs = [r \in Runs |-> NoRun]
    /\ instances = {}

\* my_unique_id = id(ww).  ww is a typed memoryview: id() is taken of the
\* Python object made from it for this one call, and that object is released
\* as soon as id() has returned, so its address is free again while the run
\* goes on; and nothing keeps two calls from being given the same array.  The
\* value is any address.
IdOutcomes == Addresses

\* The helper's instance storage as a set of keys.
allocate_storage(inst, k) == inst \cup {k}
free_storage(inst, k) == inst \ {k}

\* Galerkin setup of call r: the helper checks, then the key and the storage.
RunGalerkinSetup(r) ==
    /\ runs[r].pc = "idle"
    /\ \/ /\ runs' = [runs EXCEPT ![r].pc = "raised"]
          /\ instances' = instances
       \/ \E k \in IdOutcomes :
             /\ runs' = [runs EXCEPT ![r] = [pc |-> "loop", key |-> k, n |-> 0]]
             /\ instances' = allocate_storage(instances, k)
    /\ UNCHANGED <<layvars, ivpvars>>

\* One timestep of call r, with or without a health check tripping.
RunGalerkinStep(r) ==
    /\ runs[r].pc = "loop"
    /\ runs[r].n < MaxRunNt
    /\ \E nxt \in (IF runs[r].n + 1 = MaxRunNt THEN {"afterloop"}
                   ELSE {"loop", "afterloop"}) :
          runs' = [runs EXCEPT ![r].n = @ + 1, ![r].pc = nxt]
    /\ instances' = instances
    /\ UNCHANGED <<layvars, ivpvars>>

\* ghelper.free_storage(my_unique_id) of call r and the rest of the call;
\* what the helper does for a key it no longer holds is its own business.
RunGalerkinFinish(r) ==
    /\ runs[r].pc = "afterloop"
    /\ instances' = free_storage(instances, runs[r].key)
    /\ \E nxt \in (IF runs[r].key \in instances THEN {"done"} ELSE {"done", "raised"}) :
          runs' = [runs EXCEPT ![r].pc = nxt]
    /\ UNCHANGED <<layvars, ivpvars>>

ConcNext ==
    \E r \in Runs :
        \/ RunGalerkinSetup(r)
        \/ RunGalerkinStep(r)
        \/ RunGalerkinFinish(r)

----------------------------------------------------------------------------
Init == InitLayoutIdle /\ InitIvp /\ InitConcIdle

Next ==
    \/ Validate
    \/ Prepare
    \/ ExplicitSetup
    \/ RK2Setup
    \/ ImplicitSetup
    \/ GalerkinSetup
    \/ ExplicitStep
    \/ RK2Step
    \/ ImplicitStep
    \/ GalerkinStep
    \/ ExplicitFinish
    \/ ImplicitFinish
    \/ GalerkinFinish

Spec == Init /\ [][Next]_vars

\* The layout helpers called, in any order, on one valid (dt, nt, save_from, interp).
InitLayout ==
    /\ largs \in LayoutArgs
    /\ rlen = -1 /\ nsaved = -1 /\ bounds = <<>> /\ tt = <<>>
    /\ InitIvp
    /\ InitConcIdle

NextLayout ==
    \/ CallResultLen
    \/ CallNSavedTimesteps
    \/ CallTimestepBoundaries
    \/ CallMakeTT

LayoutSpec == InitLayout /\ [][NextLayout]_vars

ConcSpec == Init /\ [][ConcNext]_vars


----------------------------------------------------------------------------
\* Properties of the layout helpers (checked under LayoutSpec).

RECURSIVE SumWidths(_, _, _)
SumWidths(s, e, i) == IF i = 0 THEN 0 ELSE (e[i] - s[i]) + SumWidths(s, e, i - 1)

\* Number of physical timesteps from max(1, save_from) to nt.
SavedSteps(a) == Cardinality({m \in 1..a.nt : m >= a.save_from})
ICSlot(a) == IF a.save_from = 0 THEN 1 ELSE 0

\* C1: the ranges [startj[k], endj[k]) of timestep_boundaries, in order, tile
\* [0, result_len): the first starts at 0, each starts where the previous one
\* ends, the last ends at result_len, and the widths sum to result_len.
C1_BoundariesTileResult ==
    (bounds # <<>> /\ rlen # -1) =>
        LET s == bounds[1]
            e == bounds[2]
            K == Len(s)
        IN  /\ K >= 1 /\ Len(e) = K
            /\ s[1] = 0
            /\ \A i \in 1..K : s[i] < e[i]
            /\ \A i \in 1..(K - 1) : s[i + 1] = e[i]
            /\ e[K] = rlen
            /\ SumWidths(s, e, K) = rlen

C1_Witness ==
    /\ bounds # <<>> /\ rlen # -1
    /\ largs.save_from = 0 /\ largs.interp = 3 /\ Len(bounds[1]) = 4

\* C2: result_len is interp slots for each physical timestep from
\* max(1, save_from) to nt, plus one slot for the initial condition when
\* save_from = 0 whatever interp is; result_len(nt,1,1) = nt and
\* result_len(nt,0,1) = nt + 1.
C2_ResultLenCountsSlots ==
    rlen # -1 =>
        /\ rlen = SavedSteps(largs) * largs.interp + ICSlot(largs)
        /\ (largs.save_from = 1 /\ largs.interp = 1) => rlen = largs.nt
        /\ (largs.save_from = 0 /\ largs.interp = 1) => rlen = largs.nt + 1

C2_Witness ==
    rlen # -1 /\ largs.save_from = 0 /\ largs.interp = 3 /\ largs.nt = 2 /\ rlen = 7

\* C3: n_saved_timesteps is the number of ranges of timestep_boundaries for
\* every interp; it counts the initial condition as one extra entry when
\* save_from = 0; result_len is n_saved_timesteps * interp when save_from >= 1
\* and 1 + (n_saved_timesteps - 1) * interp when save_from = 0.
C3_NSavedMatchesBoundaries ==
    /\ (nsaved # -1 /\ bounds # <<>>) =>
           nsaved = Len(bounds[1]) /\ nsaved = Len(bounds[2])
    /\ nsaved # -1 => nsaved = SavedSteps(largs) + ICSlot(largs)
    /\ (nsaved # -1 /\ rlen # -1) =>
           rlen = IF largs.save_from >= 1
                  THEN nsaved * largs.interp
                  ELSE 1 + (nsaved - 1) * largs.interp

C3_Witness ==
    /\ nsaved # -1 /\ bounds # <<>> /\ rlen # -1
    /\ largs.save_from = 0 /\ largs.interp = 2 /\ nsaved = 4

\* C4: make_tt writes exactly one time into each of the result_len slots, the
\* times are non-decreasing for dt > 0 and non-increasing for dt < 0, and
\* slot 0 holds 0 when save_from = 0.
C4_MakeTTOneTimePerSlot ==
    tt # <<>> =>
        /\ Len(tt) = result_len(largs.nt, largs.save_from, largs.interp)
        /\ rlen # -1 => Len(tt) = rlen
        /\ bounds # <<>> => Len(tt) = bounds[2][Len(bounds[2])]
        /\ \A i \in 1..Len(tt) : tt[i].cnt = 1
        /\ largs.dt > 0 => \A i \in 1..(Len(tt) - 1) : tt[i].t <= tt[i + 1].t
        /\ largs.dt < 0 => \A i \in 1..(Len(tt) - 1) : tt[i].t >= tt[i + 1].t
        /\ largs.save_from = 0 => tt[1].t = 0

C4_Witness ==
    /\ tt # <<>> /\ largs.dt < 0 /\ largs.save_from = 0 /\ largs.interp = 3
    /\ largs.nt = 2 /\ Len(tt) = 7 /\ tt[7].t < tt[2].t


----------------------------------------------------------------------------
\* Properties of ivp (checked under Spec).

UnboundError == "UnboundLocalError: nt_taken"

\* The call was rejected with one of the configuration errors.
RejectedInput == pc = "raised" /\ err # UnboundError

\* No element of ww, ff or fail has been written.
NothingWritten ==
    /\ ~oob
    /\ \A i \in 1..Len(ww.rows) : ww.rows[i].cnt = 0
    /\ \A i \in 1..Len(ff.rows) : ff.rows[i].cnt = 0
    /\ \A i \in 1..Len(fail.rows) : fail.rows[i].cnt = 0

\* The time-axis length ivp's contract asks of every supplied buffer.
n_slots == result_len(nt, save_from, interp)
FailShapeOk == fail.given => Len(fail.rows) = n_slots

\* The call got through every check and its loop has ended, whichever way the
\* call then ends.
PastLoop == \/ pc \in {"afterloop", "done"}
            \/ pc = "raised" /\ err = UnboundError
            \/ pc = "crashed" /\ (n = nt \/ denormal_triggered \/ naninf_triggered)
CallEnded == PastLoop /\ pc \in {"done", "raised", "crashed"}

\* C5: when ivp rejects its input with a configuration error, no element of
\* ww, ff or fail has been written, for every save_from including 0.
C5_RejectedInputWritesNothing == RejectedInput => NothingWritten

\* C6: ivp raises before doing any work whenever a supplied output buffer has
\* the wrong shape: ww or ff (time axis or second dimension), or fail (length).
C6_WrongShapeRaisesFirst ==
    (/\ pc # "start"
     /\ \/ Len(ww.rows) # n_slots \/ ww.cols # n_space_dofs
        \/ ff.given /\ (Len(ff.rows) # n_slots \/ ff.cols # n_space_dofs)
        \/ fail.given /\ Len(fail.rows) # n_slots)
    => (pc = "raised" /\ NothingWritten)

\* C7: in a run that passed validation, with buffers of time-axis length
\* result_len, every write to ww, ff and fail (initial condition, store(), the
\* Galerkin interp > 1 storage, the fill-in) targets an index in [0, result_len).
C7_WritesInBounds == FailShapeOk => ~oob

C7_Witness ==
    /\ pc = "done" /\ interp > 1 /\ ff.given /\ fail.given /\ FailShapeOk
    /\ ~oob
    /\ ww.rows[Len(ww.rows)].by = "gstore"
    /\ ff.rows[Len(ff.rows)].by = "gstore"

\* C8: a run with an explicit integrator, valid parameters and a state that
\* stays finite executes all nt timesteps and returns normally without
\* raising; with save_from = 1, interp = 1 every row of ww has been written
\* and every entry of a supplied fail is 0.
C8_ExplicitRunReturns ==
    (/\ integrator \in explicit_integrators \cup {"RK2"}
     /\ PastLoop /\ FailShapeOk
     /\ ~denormal_triggered /\ ~naninf_triggered)
    => /\ n = nt
       /\ pc \notin {"raised", "crashed"}
       /\ (pc = "done" /\ save_from = 1) =>
             /\ \A i \in 1..Len(ww.rows) : ww.rows[i].cnt = 1
             /\ \A i \in 1..Len(fail.rows) : fail.rows[i].v = 0

C10_NaNFillsFromFirstRow ==
    /\ naninf_triggered => pc # "loop"
    /\ (allow_denormals /\ FailShapeOk /\ CallEnded /\ naninf_triggered /\ n = 1)
       => /\ \A i \in (offs + 1)..Len(ww.rows) : ww.rows[i].v = "nan"
          /\ \A i \in (offs + 1)..Len(ff.rows) : ff.rows[i].v = "nan"
          /\ \A i \in (offs + 1)..Len(fail.rows) : fail.rows[i].v = 1

\* A health check has tripped.
Tripped == denormal_triggered \/ naninf_triggered

\* The entries of a buffer that the storage step of the loop wrote.
LoopWritten(buf) == {i \in 1..Len(buf.rows) : buf.rows[i].by \in {"store", "gstore"}}

\* The stepper has used its whole iteration budget at every timestep so far.
WholeBudgetEveryStep == totalnits = n * maxit

\* C11: for BE and IMR with maxit = 1 and a stepper that uses its whole budget
\* at every timestep, while no health check trips every fail entry the loop
\* has written is 1 and totalfailed counts every timestep taken, so it equals
\* nt when the loop ends.
C11_SingleIterationAllFailed ==
    (/\ pc \in {"loop", "afterloop"}
     /\ integrator \in implicit_integrators
     /\ maxit = 1
     /\ WholeBudgetEveryStep
     /\ ~Tripped)
       => /\ totalfailed = n
          /\ pc = "afterloop" => totalfailed = nt
          /\ \A i \in LoopWritten(fail) : fail.rows[i].v = 1

C11_Witness ==
    /\ pc = "afterloop"
    /\ integrator \in implicit_integrators
    /\ maxit = 1 /\ nt = 2 /\ n = nt
    /\ WholeBudgetEveryStep /\ ~Tripped
    /\ fail.given /\ FailShapeOk /\ save_from = 0
    /\ totalfailed = 2
    /\ LoopWritten(fail) = {2, 3}

\* The index range that timestep_boundaries assigns to saved timestep ts
\* (ts >= max(1, save_from)), and to the initial condition when save_from = 0.
RangeOf(ts) == offs + (ts - cuimax(1, save_from)) + 1
StartRow(ts) == timestep_boundaries(nt, save_from, interp)[1][RangeOf(ts)]
EndRow(ts) == timestep_boundaries(nt, save_from, interp)[2][RangeOf(ts)]

\* The first output row after the rows of every timestep up to ts.
FirstRowAfter(ts) == IF ts < save_from THEN 0 ELSE EndRow(ts)

\* Every row of buf after those of the timesteps up to ts holds v.
RestHolds(buf, ts, v) ==
    \A i \in (FirstRowAfter(ts) + 1)..Len(buf.rows) : buf.rows[i].v = v

\* C12: with allow_denormals false, once every component of the state is
\* denormal after some timestep the call returns without an error, whether or
\* not ff and fail were supplied, with every remaining row of ww (and of ff)
\* zero and every remaining fail entry 0; with allow_denormals true the
\* denormal condition never ends the loop.
C12_DenormalExitZeroFills ==
    /\ (~allow_denormals /\ denormal_triggered /\ CallEnded /\ FailShapeOk)
          => /\ pc = "done"
             /\ RestHolds(ww, n, "zero")
             /\ RestHolds(ff, n, "zero")
             /\ RestHolds(fail, n, 0)
    /\ allow_denormals => ~denormal_triggered

\* The part of C12 that the code keeps: BE, IMR, dG, cG with ff and fail both
\* supplied.
C12_DenormalExitWithBuffers ==
    (integrator \notin explicit_integrators \cup {"RK2"} /\ ff.given /\ fail.given)
        => C12_DenormalExitZeroFills

C12_Reached ==
    /\ ~allow_denormals /\ denormal_triggered /\ pc = "done" /\ FailShapeOk
    /\ ff.given /\ fail.given /\ n < nt

\* C13: the stepper is invoked for timesteps 1, 2, ... in order (n counts the
\* invocations: each pass of the loop calls the stepper once and adds one to
\* n); a health check that trips after timestep n ends the loop at once and
\* the stepper is never invoked again; a loop that ends without a trip has
\* invoked it exactly nt times; the loop never takes more than nt timesteps.
C13_StepperInvokedInOrder ==
    [][/\ n' # n => (n' = n + 1 /\ pc = "loop" /\ ~Tripped /\ n < nt)
       /\ pc = "loop" => n' = n + 1
       /\ Tripped' => pc' # "loop"
       /\ Tripped => (Tripped' /\ n' = n)
       /\ (pc = "loop" /\ pc' = "afterloop" /\ ~Tripped') => n' = nt
       /\ n' <= nt]_vars

C13_Witness == pc = "afterloop" /\ Tripped /\ n = 1 /\ nt = 2 /\ FailShapeOk

\* C14: for BE, IMR, dG and cG the flag stored for a saved timestep is 1
\* exactly when the stepper returned maxit iterations for it and 0 otherwise;
\* for the explicit integrators and for the initial condition it is 0; a
\* timestep that did not converge does not end the loop.  (nits is the count
\* the stepper returned for timestep n, the last one taken.)
C14_FlagIffBudgetUsed ==
    /\ \A i \in 1..Len(fail.rows) : fail.rows[i].by = "ic" => fail.rows[i].v = 0
    /\ pc \in {"loop", "afterloop"} =>
          /\ \A i \in LoopWritten(fail) :
                /\ fail.rows[i].cnt = 1
                /\ fail.rows[i].v \in {0, 1}
                /\ integrator \in explicit_integrators \cup {"RK2"} => fail.rows[i].v = 0
                /\ fail.rows[i].ts = n => (fail.rows[i].v = 1 <=> nits = maxit)
          /\ (n >= cuimax(1, save_from) /\ fail.given /\ FailShapeOk)
                => \E i \in LoopWritten(fail) : fail.rows[i].ts = n
          /\ (nits = maxit /\ ~Tripped /\ n < nt) => pc = "loop"

C14_Witness ==
    /\ pc = "loop" /\ integrator \in galerkin_integrators /\ interp = 2
    /\ maxit = 2 /\ nits = maxit /\ n = 1 /\ nt = 2 /\ ~Tripped
    /\ fail.given /\ FailShapeOk
    /\ \E i \in LoopWritten(fail) : fail.rows[i].ts = n /\ fail.rows[i].v = 1

\* The timesteps that have a range in timestep_boundaries.
SavedTimesteps == cuimax(1, save_from)..nt

\* Rows of buf follow the layout of timestep_boundaries after n timesteps:
\* the range of each saved timestep taken so far was written once, by the
\* storage of that timestep; the range of a timestep not yet taken is as the
\* caller left it; row 0 holds the initial condition, written once, exactly
\* when save_from = 0; every row belongs to one of these.
RowsFollowLayout(buf) ==
    LET tb == timestep_boundaries(nt, save_from, interp)
        startj(ts) == tb[1][RangeOf(ts)]
        endj(ts) == tb[2][RangeOf(ts)]
    IN  /\ \A ts \in SavedTimesteps : \A j \in startj(ts)..(endj(ts) - 1) :
              /\ j + 1 \in 1..Len(buf.rows)
              /\ IF ts <= n
                 THEN /\ buf.rows[j + 1].by \in {"store", "gstore"}
                      /\ buf.rows[j + 1].ts = ts
                      /\ buf.rows[j + 1].cnt = 1
                 ELSE buf.rows[j + 1].cnt = 0
        /\ \A i \in 1..Len(buf.rows) :
              /\ buf.rows[i].by = "ic" <=> (save_from = 0 /\ i = 1)
              /\ buf.rows[i].by = "ic" => buf.rows[i].cnt = 1
              /\ \/ save_from = 0 /\ i = 1
                 \/ \E ts \in SavedTimesteps : i - 1 \in startj(ts)..(endj(ts) - 1)

\* C15: while no health check has tripped, the rows of ww (and of ff) written
\* for saved timestep n are exactly the range timestep_boundaries gives it, in
\* store() and in the Galerkin interp > 1 storage alike; timesteps before
\* save_from write nothing; the initial condition goes once into row 0, before
\* the loop, only when save_from = 0; at the end of the run every row of
\* [0, result_len) has been written exactly once.
C15_StorageFollowsBoundaries ==
    (/\ \/ pc \in {"dispatch", "loop", "afterloop", "done"}
        \/ pc = "raised" /\ err = UnboundError
     /\ ~Tripped)
        => /\ RowsFollowLayout(ww)
           /\ ff.given => RowsFollowLayout(ff)
           /\ PastLoop
                 => /\ \A i \in 1..Len(ww.rows) : ww.rows[i].cnt = 1
                    /\ \A i \in 1..Len(ff.rows) : ff.rows[i].cnt = 1
                    /\ Len(ww.rows) = n_slots

C15_Witness ==
    /\ pc = "done" /\ ~Tripped /\ integrator \in galerkin_integrators
    /\ interp = 2 /\ save_from = 0 /\ nt = 2 /\ ff.given
    /\ Len(ww.rows) = 5 /\ Len(ff.rows) = 5
    /\ \A i \in 1..5 : ww.rows[i].cnt = 1 /\ ff.rows[i].cnt = 1

\* C16: in dG and cG with interp > 1 and fail of length result_len, the flag
\* of each saved timestep is written at an index inside the range
\* [startj, endj) that timestep_boundaries gives that timestep, and when an
\* untripped run ends every slot of fail holds a flag the driver wrote.
C16_FailFollowsBoundaries ==
    (/\ integrator \in galerkin_integrators /\ interp > 1
     /\ fail.given /\ FailShapeOk
     /\ pc \in {"loop", "afterloop", "done"}
     /\ ~Tripped)
        => /\ \A i \in LoopWritten(fail) :
                 i - 1 \in StartRow(fail.rows[i].ts)..(EndRow(fail.rows[i].ts) - 1)
           /\ pc = "done" => \A i \in 1..Len(fail.rows) : fail.rows[i].cnt >= 1

\* The flags of the first saved timestep and of the initial condition do land
\* in their ranges.
C16_FirstFlagInRange ==
    (/\ integrator \in galerkin_integrators /\ interp > 1
     /\ fail.given /\ FailShapeOk
     /\ pc \in {"loop", "afterloop", "done"}
     /\ ~Tripped)
        => \A i \in LoopWritten(fail) :
              fail.rows[i].ts = cuimax(1, save_from)
                 => i - 1 \in StartRow(fail.rows[i].ts)..(EndRow(fail.rows[i].ts) - 1)

\* No entry of buf that storage wrote has been written again, and every entry
\* after those of the timesteps up to ts has been filled in.
FilledAfter(buf, ts) ==
    /\ \A i \in 1..Len(buf.rows) : buf.rows[i].cnt <= 1
    /\ \A i \in (FirstRowAfter(ts) + 1)..Len(buf.rows) : buf.rows[i].by = "fill"

\* C17: when a health check cuts the loop short at timestep n, the fill-in
\* starts at the first row storage has not written: it overwrites no row that
\* storage wrote for a completed timestep, timestep n included, and it fills
\* every row after those up to the end of the buffers.
C17_FillStartsAtFirstUnwrittenRow ==
    (Tripped /\ CallEnded /\ FailShapeOk)
        => /\ FilledAfter(ww, n)
           /\ FilledAfter(ff, n)
           /\ interp = 1 => FilledAfter(fail, n)

\* What the fill-in does when it runs to its end: it starts at the first row
\* of timestep n, so the rows storage wrote for timestep n are written again.
C17_FillStartsAtRowOfLastTimestep ==
    (Tripped /\ pc = "done" /\ FailShapeOk /\ n >= save_from)
        => \A i \in 1..Len(ww.rows) :
              IF i - 1 >= StartRow(n)
              THEN ww.rows[i].by = "fill" /\ (ww.rows[i].cnt = 2 <=> i - 1 < EndRow(n))
              ELSE ww.rows[i].by # "fill"

\* Entries of a buffer that hold the initial condition or what storage wrote
\* for a timestep before ts are the same in before and after.
KeptBefore(before, after, ts) ==
    /\ Len(after.rows) = Len(before.rows)
    /\ \A i \in 1..Len(before.rows) :
          (\/ before.rows[i].by = "ic"
           \/ before.rows[i].by \in {"store", "gstore"} /\ before.rows[i].ts < ts)
              => after.rows[i] = before.rows[i]

AllFilled(buf) == \A i \in 1..Len(buf.rows) : buf.rows[i].by = "fill"

\* C18: when a health check has tripped at timestep n and the call reaches
\* the fill-in, the fill-in leaves unchanged the initial-condition row and
\* every ww, ff and fail entry that storage wrote for a timestep before n;
\* when n < save_from it fills every row from row 0 on.
C18_FillKeepsEarlierTimesteps ==
    [][(pc = "afterloop" /\ Tripped /\ pc' \in {"done", "crashed"})
          => /\ KeptBefore(ww, ww', n)
             /\ KeptBefore(ff, ff', n)
             /\ KeptBefore(fail, fail', n)
             /\ (n < save_from /\ pc' = "done")
                   => AllFilled(ww') /\ AllFilled(ff') /\ AllFilled(fail')]_vars

C18_Witness ==
    /\ pc = "done" /\ Tripped /\ n = 2 /\ save_from = 0 /\ interp = 1
    /\ fail.given /\ FailShapeOk /\ ff.given
    /\ ww.rows[1].by = "ic" /\ ww.rows[2].by = "store" /\ ww.rows[2].ts = 1
    /\ ww.rows[3].by = "fill"
    /\ fail.rows[2].by = "store" /\ fail.rows[3].by = "fill"

\* The other case of C18: the trip comes before the first saved timestep.
C18_TripBeforeSaveFrom ==
    /\ pc = "done" /\ Tripped /\ n < save_from /\ fail.given /\ FailShapeOk
    /\ AllFilled(ww) /\ Len(ww.rows) >= 1 /\ Len(fail.rows) >= 1

\* The call has ended: it returned, raised, or (with buffers of the right
\* length) died in the fill-in.
Exited == pc \in {"done", "raised"} \/ (pc = "crashed" /\ FailShapeOk)

\* Nothing is held at the end of the call, and a call that got its workspace
\* or its scratch storage has given it back.
ReleasedAtExit ==
    Exited => /\ wrk \in {"NULL", "freed"}
              /\ storage \in {"none", "freed"}
              /\ PastLoop => IF integrator \in galerkin_integrators
                             THEN storage = "freed" /\ wrk = "NULL"
                             ELSE wrk = "freed" /\ storage = "none"
              /\ ~PastLoop => wrk = "NULL" /\ storage = "none"

\* C19: on every exit path of ivp (normal completion, early exit by a health
\* check, every raised error) each workspace buffer that was allocated has
\* been freed exactly once and the scratch storage taken with
\* allocate_storage has been released with free_storage; no path raises
\* while holding either.
C19_WorkspaceReleasedOnce ==
    [][/\ ReleasedAtExit'
       /\ wrk' # wrk => \/ wrk = "NULL" /\ wrk' = "malloc"
                        \/ wrk = "malloc" /\ wrk' = "freed"
       /\ storage' # storage => \/ storage = "none" /\ storage' = "allocated"
                                \/ storage = "allocated" /\ storage' = "freed"]_vars

C19_Witness ==
    /\ pc = "done" /\ Tripped /\ n < nt
    /\ integrator \in galerkin_integrators /\ storage = "freed"

\* The path that raises after the workspace was allocated.
C19_RaisedAfterMalloc == pc = "raised" /\ err = UnboundError /\ wrk = "freed"

\* Equality of two rationals num/den.
SameValue(a, b) == a.num * b.den = b.num * a.den

\* C20: a dG/cG run leaves the helper's global precomputed arrays unchanged:
\* the tables hold after the run what they held after initialization.  (Of
\* the nine arrays ivp writes only to vis_x and integ_x; NoHelper holds their
\* values after initialization, points of the reference element [-1,1].)
C20_HelperArraysUnchanged ==
    /\ SameValue(ghelper.vis_x, NoHelper.vis_x)
    /\ SameValue(ghelper.integ_x, NoHelper.integ_x)

\* The run that changes them: a Galerkin run that got through the helper checks.
C20_MappedInPlace ==
    /\ integrator \in galerkin_integrators /\ pc = "done"
    /\ SameValue(ghelper.vis_x, MapToUnit(NoHelper.vis_x))
    /\ SameValue(ghelper.integ_x, MapToUnit(NoHelper.integ_x))

\* The timesteps taken so far whose iteration count equalled maxit.
FullBudgetSteps == {i \in 1..Len(nits_seen) : nits_seen[i] = maxit}

RECURSIVE SeqSum(_)
SeqSum(s) == IF s = <<>> THEN 0 ELSE s[1] + SeqSum(Tail(s))

SeqMin(s) == CHOOSE x \in {s[i] : i \in 1..Len(s)} : \A i \in 1..Len(s) : x <= s[i]
SeqMax(s) == CHOOSE x \in {s[i] : i \in 1..Len(s)} : \A i \in 1..Len(s) : x >= s[i]

\* The statistics say of the timesteps taken so far what their names say;
\* n counts every timestep taken, the one that tripped a health check included.
StatisticsMatchHistory ==
    (integrator \in implicit_integrators \cup galerkin_integrators /\ n >= 1)
        => /\ Len(nits_seen) = n
           /\ nits = nits_seen[n]
           /\ totalfailed = Cardinality(FullBudgetSteps)
           /\ nfail = (IF FullBudgetSteps = {} THEN 0
                       ELSE CHOOSE i \in FullBudgetSteps : \A j \in FullBudgetSteps : j <= i)
           /\ nfail = 0 <=> totalfailed = 0
           /\ min_taken_its = SeqMin(nits_seen)
           /\ max_taken_its = SeqMax(nits_seen)
           /\ min_taken_its <= max_taken_its /\ max_taken_its <= maxit
           /\ totalnits = SeqSum(nits_seen)

\* C21: for BE, IMR, dG and cG, after every timestep of the loop totalfailed
\* is the number of timesteps taken whose iteration count equalled maxit and
\* never decreases; nfail is the most recent such timestep (0 iff there is
\* none); min_taken_its and max_taken_its are the least and the greatest
\* count seen, min_taken_its <= max_taken_its <= maxit; totalnits is the sum
\* of the counts; the timestep that trips a health check is counted too.
C21_StatisticsMatchHistory ==
    [][/\ StatisticsMatchHistory'
       /\ totalfailed' >= totalfailed
       /\ totalnits' >= totalnits]_vars

C21_Witness ==
    /\ pc = "afterloop" /\ Tripped /\ n = 2
    /\ integrator \in implicit_integrators \cup galerkin_integrators
    /\ maxit = 2 /\ nits_seen = <<2, 1>>
    /\ totalfailed = 1 /\ nfail = 1 /\ totalnits = 3
    /\ min_taken_its = 1 /\ max_taken_its = 2

\* Call r holds instance storage: it has allocated it and not yet freed it.
InProgress(r) == runs[r].pc \in {"loop", "afterloop"}

\* C22: any two dG/cG runs in progress at the same time hold different
\* scratch keys, hence disjoint instance arrays, and the free_storage of one
\* run never releases the scratch of a run that is still in its loop: the
\* key of every run in its loop is allocated in the helper.
C22_RunsHoldDifferentKeys ==
    /\ \A r1, r2 \in Runs :
          (r1 # r2 /\ InProgress(r1) /\ InProgress(r2))
              => runs[r1].key # runs[r2].key
    /\ \A r \in Runs : runs[r].pc = "loop" => runs[r].key \in instances

\* What does hold: as long as the keys the runs were given are all different,
\* no run loses its storage while it is in its loop.
C22_DifferentKeysKeepStorage ==
    (\A r1, r2 \in Runs :
        (r1 # r2 /\ runs[r1].key # 0 /\ runs[r2].key # 0)
            => runs[r1].key # runs[r2].key)
        => \A r \in Runs : InProgress(r) => runs[r].key \in instances

\* A run in its loop whose storage another run has released.
C22_StorageReleasedUnderRun ==
    \E r1, r2 \in Runs :
        /\ runs[r1].pc = "loop" /\ runs[r2].pc = "done"
        /\ runs[r1].key = runs[r2].key /\ runs[r1].key \notin instances

====
